---- MODULE Spec2Model ----
(***************************************************************************)
(* Model of src/app.py: the fare predictor's feature derivation            *)
(* (predict_fare) and the button handler of main that calls it.            *)
(*                                                                         *)
(* Real numbers are exact rationals [n |-> numerator, d |-> denominator]   *)
(* in lowest terms with d > 0; Python's int and float values that compare  *)
(* equal are the same rational.  On the inputs the widgets allow, every     *)
(* comparison of the program (against 130, 60, 20, 200, 500 and 0) has the *)
(* same outcome in binary floating point as in exact arithmetic.           *)
(***************************************************************************)
EXTENDS Integers, Sequences, FiniteSets, TLC

VARIABLES pc, caller, distance, duration, class_code,
          locals, input_data, predict_calls, model_output, result, error, ui

vars == <<pc, caller, distance, duration, class_code,
          locals, input_data, predict_calls, model_output, result, error, ui>>

----------------------------------------------------------------------------
(* Bounds of the model *)

MaxHours == 4

(* Inputs drawn for the model: the values around every threshold of the code *)
WidgetDistances == {1, 19, 20, 60, 61, 75, 130, 131, 200, 201, 261, 500, 501, 5000}
WidgetMinutes == {0, 1, 30, 59}
WidgetClasses == {"1A", "2A", "3A", "CC", "2S", "SL"}

(* Arguments of a direct call: reals, and class codes outside the six *)
CallDistances == {[n |-> 1, d |-> 2], [n |-> 75, d |-> 1], [n |-> 200, d |-> 1],
                  [n |-> 401, d |-> 2], [n |-> 500, d |-> 1], [n |-> 1001, d |-> 2]}
CallDurations == {[n |-> 0, d |-> 1], [n |-> 1, d |-> 2], [n |-> 60, d |-> 1],
                  [n |-> 121, d |-> 2], [n |-> 180, d |-> 1], [n |-> 600, d |-> 1]}
CallClasses == WidgetClasses \cup {"4A", ""}

(* Outputs the opaque model may give *)
ModelFares == {-50, 0, 1250}

----------------------------------------------------------------------------
(* Arithmetic of the program's numbers *)

RECURSIVE GCD(_, _)
GCD(a, b) == IF b = 0 THEN a ELSE GCD(b, a % b)

Abs(i) == IF i < 0 THEN -i ELSE i

Norm(n, d) == LET g == GCD(Abs(n), d) IN [n |-> n \div g, d |-> d \div g]

Rat(i) == [n |-> i, d |-> 1]

(* The outcome of an expression that raised ZeroDivisionError *)
ZeroDivision == [n |-> 0, d |-> 0]

Mul(a, b) ==
  IF a.d = 0 \/ b.d = 0 THEN ZeroDivision ELSE Norm(a.n * b.n, a.d * b.d)

(* a / b for b >= 0: Python raises ZeroDivisionError when b is 0 *)
Div(a, b) ==
  IF a.d = 0 \/ b.d = 0 \/ b.n = 0 THEN ZeroDivision
  ELSE Norm(a.n * b.d, a.d * b.n)

Gt(a, b) == a.n * b.d > b.n * a.d

Le(a, b) == ~Gt(a, b)

Lt(a, b) == Gt(b, a)

(* math.ceil: the least integer not below a *)
ceil(a) == -((-a.n) \div a.d)

----------------------------------------------------------------------------
(* predict_fare, lines 26-31: the class tables *)

(* The hierarchy in the order of main's selectbox *)
class_hierarchy_SelectboxOrder == <<"1A", "2A", "3A", "CC", "2S", "SL">>

class_hierarchy == <<"1A", "2A", "3A", "SL", "CC", "2S">>

class_mapping ==
  [c \in {class_hierarchy[i] : i \in 1..Len(class_hierarchy)} |->
     CHOOSE i \in 1..Len(class_hierarchy) : class_hierarchy[i] = c]

luxury_mapping ==
  [c \in {"1A", "2A", "3A", "CC", "2S", "SL"} |->
     CASE c = "1A" -> 6 [] c = "2A" -> 5 [] c = "3A" -> 4
       [] c = "CC" -> 2 [] c = "2S" -> 1 [] c = "SL" -> 3]

(* mapping.get(key, 0): an absent key gives 0 *)
Lookup_Default(mapping, key) ==
  [raised |-> FALSE, value |-> IF key \in DOMAIN mapping THEN mapping[key] ELSE 0]

(* mapping[key]: the value, or a KeyError when the key is absent *)
Lookup(mapping, key) ==
  IF key \in DOMAIN mapping
    THEN [raised |-> FALSE, value |-> mapping[key]]
    ELSE [raised |-> TRUE]

----------------------------------------------------------------------------
(* predict_fare, lines 34-58: the features *)

(* min(speed, 130) in place of the fallback 75 *)
speed_kmh_ClampTo130(d, t) ==
  LET raw == IF Gt(t, Rat(0)) THEN Div(d, Rat(ceil(Div(t, Rat(60))))) ELSE Rat(0)
  IN IF Gt(raw, Rat(130)) THEN Rat(130) ELSE raw

(* distance / max(1, ceil(duration / 60)) in place of the guard on duration *)
speed_kmh_AtLeastOneHour(d, t) ==
  LET hours == ceil(Div(t, Rat(60)))
      raw == Div(d, Rat(IF hours < 1 THEN 1 ELSE hours))
  IN IF Gt(raw, Rat(130)) THEN Rat(75) ELSE raw

speed_kmh(d, t) ==
  LET raw == IF Gt(t, Rat(0)) THEN Div(d, Rat(ceil(Div(t, Rat(60))))) ELSE Rat(0)
  IN IF Gt(raw, Rat(130)) THEN Rat(75) ELSE raw

(* distance / duration without the guard on duration *)
km_per_minute_Unguarded(d, t) == Div(d, t)

km_per_minute(d, t) == IF Gt(t, Rat(0)) THEN Div(d, t) ELSE Rat(0)

speed_premium(speed, luxury) == Mul(speed, Rat(luxury))

efficiency_score(d, t, encoded) ==
  IF Gt(t, Rat(0)) THEN Mul(Div(d, t), Rat(encoded)) ELSE Rat(0)

is_express(speed) == IF Gt(speed, Rat(60)) THEN Rat(1) ELSE Rat(0)

journey_intensity(d, t) == IF Gt(t, Rat(0)) THEN Div(d, t) ELSE Rat(0)

is_short_journey(d) == IF Le(d, Rat(200)) THEN Rat(1) ELSE Rat(0)

(* 200 <= distance <= 500 *)
is_medium_journey_Inclusive(d) ==
  IF Le(Rat(200), d) /\ Le(d, Rat(500)) THEN Rat(1) ELSE Rat(0)

is_medium_journey(d) ==
  IF Lt(Rat(200), d) /\ Le(d, Rat(500)) THEN Rat(1) ELSE Rat(0)

is_long_journey(d) == IF Gt(d, Rat(500)) THEN Rat(1) ELSE Rat(0)

distance_class(d, encoded) == Mul(d, Rat(encoded))

distance_luxury(d, luxury) == Mul(d, Rat(luxury))

speed_class(speed, encoded) == Mul(speed, Rat(encoded))

speed_luxury(speed, luxury) == Mul(speed, Rat(luxury))

distance_duration_ratio(d, t) == IF Gt(t, Rat(0)) THEN Div(d, t) ELSE Rat(0)

distance_duration_class(d, t, encoded) == Mul(Mul(d, t), Rat(encoded))

express_premium(express, luxury) == Mul(express, Rat(luxury))

distance_squared(d) == Mul(d, d)

duration_squared(t) == Mul(t, t)

speed_squared(speed) == Mul(speed, speed)

(* The local variables of predict_fare after line 61 *)
Features(d, t, encoded, luxury) ==
  LET speed == speed_kmh(d, t)
      express == is_express(speed)
  IN [class_encoded |-> Rat(encoded),
      luxury_score |-> Rat(luxury),
      speed_kmh |-> speed,
      km_per_minute |-> km_per_minute(d, t),
      speed_premium |-> speed_premium(speed, luxury),
      efficiency_score |-> efficiency_score(d, t, encoded),
      is_express |-> express,
      journey_intensity |-> journey_intensity(d, t),
      is_short_journey |-> is_short_journey(d),
      is_medium_journey |-> is_medium_journey(d),
      is_long_journey |-> is_long_journey(d),
      distance_class |-> distance_class(d, encoded),
      distance_luxury |-> distance_luxury(d, luxury),
      speed_class |-> speed_class(speed, encoded),
      speed_luxury |-> speed_luxury(speed, luxury),
      distance_duration_ratio |-> distance_duration_ratio(d, t),
      distance_duration_class |-> distance_duration_class(d, t, encoded),
      express_premium |-> express_premium(express, luxury),
      distance_squared |-> distance_squared(d),
      duration_squared |-> duration_squared(t),
      speed_squared |-> speed_squared(speed),
      distance_bin |-> Rat(0),
      duration_bin |-> Rat(0),
      speed_bin |-> Rat(0)]

(* Some expression of lines 34-58 raised ZeroDivisionError *)
Raised(f) == \E name \in DOMAIN f : f[name] = ZeroDivision

(* The row with speed_premium and efficiency_score exchanged *)
InputData_Swapped(d, t, f) ==
  << << d, t, f.class_encoded,
        f.luxury_score,
        f.speed_kmh, f.km_per_minute, f.efficiency_score, f.speed_premium,
        f.is_express, f.journey_intensity,
        f.is_short_journey, f.is_medium_journey, f.is_long_journey,
        f.distance_class, f.distance_luxury, f.speed_class, f.speed_luxury,
        f.distance_duration_ratio, f.distance_duration_class, f.express_premium,
        f.distance_squared, f.duration_squared, f.speed_squared,
        f.distance_bin, f.duration_bin, f.speed_bin >> >>

(* predict_fare, lines 63-73: the list of one row handed to the model *)
InputData(d, t, f) ==
  << << d, t, f.class_encoded,
        f.luxury_score,
        f.speed_kmh, f.km_per_minute, f.speed_premium, f.efficiency_score,
        f.is_express, f.journey_intensity,
        f.is_short_journey, f.is_medium_journey, f.is_long_journey,
        f.distance_class, f.distance_luxury, f.speed_class, f.speed_luxury,
        f.distance_duration_ratio, f.distance_duration_class, f.express_premium,
        f.distance_squared, f.duration_squared, f.speed_squared,
        f.distance_bin, f.duration_bin, f.speed_bin >> >>

(* max(0, fare): a negative fare rejected *)
PredictedFare_NonNegative(output) == IF output[1] < 0 THEN 0 ELSE output[1]

(* predict_fare, line 75: the fare is element [0] of the model's output *)
PredictedFare(output) == output[1]

----------------------------------------------------------------------------
(* State *)

Unset == [unset |-> TRUE]

Form == [kind |-> "form"]

Init ==
  /\ pc = "idle"
  /\ caller = "none"
  /\ distance = Unset
  /\ duration = Unset
  /\ class_code = ""
  /\ locals = Unset
  /\ input_data = <<>>
  /\ predict_calls = 0
  /\ model_output = <<>>
  /\ result = Unset
  /\ error = "none"
  /\ ui = Form

(* predict_fare, lines 25-73: from the call up to the call of model.predict. *)
(* An unknown class code raises at line 30, before any feature exists; a   *)
(* division by zero raises before the row is built.                        *)
Enter(who, d, t, c) ==
  LET encoded == Lookup(class_mapping, c)
      luxury == Lookup(luxury_mapping, c)
      f == Features(d, t, encoded.value, luxury.value)
  IN /\ pc = "idle"
     /\ caller' = who
     /\ distance' = d
     /\ duration' = t
     /\ class_code' = c
     /\ predict_calls' = 0
     /\ model_output' = <<>>
     /\ result' = Unset
     /\ ui' = Form
     /\ IF encoded.raised \/ luxury.raised
          THEN /\ pc' = "raised"
               /\ error' = "KeyError"
               /\ locals' = Unset
               /\ input_data' = <<>>
          ELSE IF Raised(f)
          THEN /\ pc' = "raised"
               /\ error' = "ZeroDivisionError"
               /\ locals' = Unset
               /\ input_data' = <<>>
          ELSE /\ pc' = "predict"
               /\ error' = "none"
               /\ locals' = f
               /\ input_data' = InputData(d, t, f)

(* A caller of predict_fare other than main *)
Invoke ==
  \E d \in CallDistances, t \in CallDurations, c \in CallClasses :
    Enter("direct", d, t, c)

(* main, lines 92-133: the widgets' values and the click on Predict *)
Click ==
  \E d \in WidgetDistances, hours \in 0..MaxHours, minutes \in WidgetMinutes,
     c \in WidgetClasses :
    Enter("main", Rat(d), Rat((hours * 60) + minutes), c)

(* predict_fare, lines 75-76: model.predict returns one fare per row *)
ModelReturns ==
  \E fare \in ModelFares :
    /\ pc = "predict"
    /\ predict_calls' = predict_calls + 1
    /\ model_output' = <<fare>>
    /\ result' = [fare |-> PredictedFare(model_output'),
                  speed_kmh |-> locals.speed_kmh]
    /\ pc' = "returned"
    /\ UNCHANGED <<caller, distance, duration, class_code, locals, input_data,
                   error, ui>>

(* predict_fare, line 75: model.predict raises; nothing catches it *)
ModelRaises ==
  /\ pc = "predict"
  /\ predict_calls' = predict_calls + 1
  /\ error' = "ModelError"
  /\ pc' = "raised"
  /\ UNCHANGED <<caller, distance, duration, class_code, locals, input_data,
                 model_output, result, ui>>

(* main, line 136: the speed the condition of the warning computes *)
CheckedSpeed(d, t) == Div(d, Div(t, Rat(60)))

(* The warning with a threshold of 150 *)
Unrealistic_Threshold150(d, t, speed) ==
  Gt(CheckedSpeed(d, t), Rat(150)) \/ Lt(speed, Rat(20))

(* main, line 136: the condition of the warning *)
Unrealistic(d, t, speed) ==
  Gt(CheckedSpeed(d, t), Rat(130)) \/ Lt(speed, Rat(20))

(* main, lines 136-154: the sanity check and the display.  Nothing guards  *)
(* the division of line 136.                                               *)
Render ==
  /\ pc = "returned"
  /\ caller = "main"
  /\ IF CheckedSpeed(distance, duration) = ZeroDivision
       THEN /\ pc' = "raised"
            /\ error' = "ZeroDivisionError"
            /\ ui' = ui
       ELSE /\ pc' = "done"
            /\ error' = error
            /\ ui' = IF Unrealistic(distance, duration, result.speed_kmh)
                       THEN [kind |-> "warning"]
                       ELSE [kind |-> "display", fare |-> result.fare,
                             speed |-> result.speed_kmh]
  /\ UNCHANGED <<caller, distance, duration, class_code, locals, input_data,
                 predict_calls, model_output, result>>

(* The invocation is over: main's script has ended (or stopped on the      *)
(* error), or predict_fare has returned (or raised) to its caller.         *)
Finished ==
  \/ pc \in {"raised", "done"}
  \/ pc = "returned" /\ caller = "direct"

(* The next run of the script, or the caller's next call *)
Rerun ==
  /\ Finished
  /\ pc' = "idle"
  /\ caller' = "none"
  /\ distance' = Unset
  /\ duration' = Unset
  /\ class_code' = ""
  /\ locals' = Unset
  /\ input_data' = <<>>
  /\ predict_calls' = 0
  /\ model_output' = <<>>
  /\ result' = Unset
  /\ error' = "none"
  /\ ui' = Form

Next ==
  \/ Invoke
  \/ Click
  \/ ModelReturns
  \/ ModelRaises
  \/ Render
  \/ Rerun

Spec == Init /\ [][Next]_vars

----------------------------------------------------------------------------
(* Properties *)

RecognizedClasses == {"1A", "2A", "3A", "SL", "CC", "2S"}

(* predict_fare has been entered with a recognized class *)
Recognized == pc # "idle" /\ class_code \in RecognizedClasses

(* The row handed to model.predict *)
Row == input_data[1]

(* distance / ceil(duration / 60), for duration > 0 *)
RawSpeed == Div(distance, Rat(ceil(Div(duration, Rat(60)))))

FeatureOrder ==
  <<"distance", "duration", "class_encoded", "luxury_score",
    "speed_kmh", "km_per_minute", "speed_premium", "efficiency_score",
    "is_express", "journey_intensity",
    "is_short_journey", "is_medium_journey", "is_long_journey",
    "distance_class", "distance_luxury", "speed_class", "speed_luxury",
    "distance_duration_ratio", "distance_duration_class", "express_premium",
    "distance_squared", "duration_squared", "speed_squared",
    "distance_bin", "duration_bin", "speed_bin">>

(* C1: for a recognized class, distance > 0 and duration >= 0, predict_fare *)
(* hands model.predict one row of exactly 26 entries in the fixed order:    *)
(* entries 1 and 2 are the raw inputs, entry k is the feature named k-th in *)
(* the layout, and the last three entries are 0.                            *)
C1_VectorLayout ==
  Recognized =>
    /\ Len(input_data) = 1
    /\ Len(Row) = 26
    /\ Row[1] = distance
    /\ Row[2] = duration
    /\ \A k \in 3..26 : Row[k] = locals[FeatureOrder[k]]
    /\ \A k \in 24..26 : Row[k] = Rat(0)

C1_Witness ==
  /\ predict_calls = 1
  /\ class_code = "3A"
  /\ distance = [n |-> 401, d |-> 2]
  /\ duration = [n |-> 121, d |-> 2]
  /\ Len(Row) = 26
  /\ Row[7] # Row[8]

ExpectedRank(c) ==
  CASE c = "1A" -> 1 [] c = "2A" -> 2 [] c = "3A" -> 3
    [] c = "SL" -> 4 [] c = "CC" -> 5 [] c = "2S" -> 6

ExpectedLuxury(c) ==
  CASE c = "1A" -> 6 [] c = "2A" -> 5 [] c = "3A" -> 4
    [] c = "SL" -> 3 [] c = "CC" -> 2 [] c = "2S" -> 1

(* C2: for each of the six classes the class_encoded and luxury_score       *)
(* entries of the row equal the fixed tables (1A=1 .. 2S=6 and 1A=6 .. 2S=1) *)
(* whatever the distance and the duration.                                  *)
C2_ClassTables ==
  Recognized =>
    /\ Row[3] = Rat(ExpectedRank(class_code))
    /\ Row[4] = Rat(ExpectedLuxury(class_code))

C2_Witness ==
  /\ pc = "predict"
  /\ class_code = "SL"
  /\ Row[3] = Rat(4)
  /\ Row[4] = Rat(3)

(* C3: with duration > 0, a raw speed distance / ceil(duration / 60) above  *)
(* 130 gives speed_kmh = 75 in the row and in the returned pair; a raw      *)
(* speed of at most 130 is kept unchanged.                                  *)
C3_SpeedClamp ==
  (Recognized /\ Gt(duration, Rat(0))) =>
    LET expected == IF Gt(RawSpeed, Rat(130)) THEN Rat(75) ELSE RawSpeed
    IN /\ Row[5] = expected
       /\ pc \in {"returned", "done"} => result.speed_kmh = expected

C3_Witness ==
  /\ pc = "returned"
  /\ Gt(duration, Rat(0))
  /\ Gt(RawSpeed, Rat(130))
  /\ Row[5] = Rat(75)
  /\ result.speed_kmh = Rat(75)

(* C4: with duration = 0 predict_fare raises nothing of its own (the row is *)
(* built and the model is reached) and speed_kmh, km_per_minute,            *)
(* efficiency_score, is_express, journey_intensity and                      *)
(* distance_duration_ratio are 0.                                           *)
C4_ZeroDuration ==
  (Recognized /\ duration = Rat(0)) =>
    /\ pc = "raised" => predict_calls = 1
    /\ error \notin {"KeyError"}
    /\ input_data # <<>>
    /\ \A k \in {5, 6, 8, 9, 10, 18} : Row[k] = Rat(0)

C4_Witness ==
  /\ pc = "returned"
  /\ caller = "direct"
  /\ duration = Rat(0)
  /\ distance = Rat(500)
  /\ Row[6] = Rat(0)

(* C5: a class code outside the six makes predict_fare fail with the       *)
(* unknown-class error before anything is built: no feature, no row, and   *)
(* no call of model.predict in that invocation.                            *)
C5_UnknownClass ==
  (pc # "idle" /\ class_code \notin RecognizedClasses) =>
    /\ pc = "raised"
    /\ error = "KeyError"
    /\ locals = Unset
    /\ input_data = <<>>
    /\ predict_calls = 0
    /\ result = Unset

C5_Witness ==
  /\ pc = "raised"
  /\ class_code = "4A"
  /\ error = "KeyError"
  /\ predict_calls = 0

(* C6: exactly one of is_short_journey, is_medium_journey, is_long_journey  *)
(* is 1 and the others 0, chosen by the distance alone: short up to 200     *)
(* included, medium up to 500 included, long above.                         *)
C6_JourneyLength ==
  Recognized =>
    <<Row[11], Row[12], Row[13]>> =
      IF Le(distance, Rat(200)) THEN <<Rat(1), Rat(0), Rat(0)>>
      ELSE IF Le(distance, Rat(500)) THEN <<Rat(0), Rat(1), Rat(0)>>
      ELSE <<Rat(0), Rat(0), Rat(1)>>

C6_Witness ==
  /\ pc = "predict"
  /\ distance = Rat(200)
  /\ Row[11] = Rat(1)
  /\ Row[12] = Rat(0)
  /\ Row[13] = Rat(0)

(* C7 as stated: with duration = 0 every derived feature of the table      *)
(* (entries 6 to 23 of the row) is 0.                                      *)
C7_AllDerivedZero ==
  (Recognized /\ duration = Rat(0)) => \A k \in 6..23 : Row[k] = Rat(0)

(* C7 amended: with duration = 0 the derived features that depend on the   *)
(* duration or on the speed are 0, and those that depend on the distance   *)
(* alone keep their values: one journey-length indicator is 1, and         *)
(* distance_class, distance_luxury and distance_squared are the positive   *)
(* products distance * class_encoded, distance * luxury_score, distance^2. *)
C7_ZeroDurationFeatures ==
  (Recognized /\ duration = Rat(0)) =>
    /\ \A k \in {6, 7, 8, 9, 10, 16, 17, 18, 19, 20, 22, 23} : Row[k] = Rat(0)
    /\ \E k \in 11..13 : Row[k] = Rat(1) /\ \A j \in (11..13) \ {k} : Row[j] = Rat(0)
    /\ Row[14] = Mul(distance, Rat(ExpectedRank(class_code)))
    /\ Row[15] = Mul(distance, Rat(ExpectedLuxury(class_code)))
    /\ Row[21] = Mul(distance, distance)
    /\ \A k \in {14, 15, 21} : Gt(Row[k], Rat(0))

C7_Witness ==
  /\ pc = "predict"
  /\ duration = Rat(0)
  /\ distance = Rat(200)
  /\ class_code = "2A"
  /\ Row[14] = Rat(400)
  /\ Row[7] = Rat(0)

(* C8: for a recognized class model.predict is called exactly once, never  *)
(* again; when it raises, the error reaches the caller and no pair is      *)
(* returned; when it returns, the fare is the first element of its output, *)
(* negative or not, paired with the derived speed_kmh.                     *)
C8_Delegation ==
  /\ predict_calls <= 1
  /\ Recognized =>
       /\ pc = "predict" => predict_calls = 0 /\ result = Unset
       /\ pc # "predict" => predict_calls = 1
       /\ error = "ModelError" => pc = "raised" /\ result = Unset /\ ui = Form
       /\ pc \in {"returned", "done"} =>
            /\ Len(model_output) = 1
            /\ result.fare = model_output[1]
            /\ result.speed_kmh = Row[5]

C8_Witness ==
  /\ pc = "returned"
  /\ predict_calls = 1
  /\ model_output = <<-50>>
  /\ result.fare = -50

(* C9: in main a click on Predict ends, for every input the widgets allow  *)
(* and a model that answers, in the warning or in the display of the fare  *)
(* and the speed, never in an unhandled error.                             *)
C9_NoUnhandledError ==
  (caller = "main" /\ Finished /\ error # "ModelError") =>
    /\ error = "none"
    /\ ui.kind \in {"warning", "display"}

(* C10: when predict_fare replaced the speed by 75, main's own check holds *)
(* too and main shows the warning, not a fare; every speed main displays   *)
(* lies in 20..130 and is the unclamped distance / ceil(duration / 60).    *)
C10_SentinelNeverDisplayed ==
  (caller = "main" /\ pc = "done") =>
    /\ Gt(RawSpeed, Rat(130)) =>
         /\ Gt(CheckedSpeed(distance, duration), Rat(130))
         /\ ui = [kind |-> "warning"]
    /\ ui.kind = "display" =>
         /\ Le(Rat(20), ui.speed)
         /\ Le(ui.speed, Rat(130))
         /\ ui.speed = RawSpeed
         /\ ui.fare = result.fare

C10_Witness ==
  /\ caller = "main"
  /\ pc = "done"
  /\ Gt(RawSpeed, Rat(130))
  /\ result.speed_kmh = Rat(75)
  /\ ui.kind = "warning"

====
